---- MODULE Spec2Model ----
(***************************************************************************)
(* State-machine model of nest::Multimeter (models/multimeter.cpp).        *)
(*                                                                         *)
(* One Multimeter object is followed: its parameters P_, state S_,         *)
(* buffers B_ and variables V_, the activation window of its recording     *)
(* device, and the simulation resolution.  Every member function is one    *)
(* action.  The variables op, arg, err, sent, written and out record the   *)
(* most recent call, its input and what it produced, so that properties    *)
(* of a call can be stated over the step that made it.                     *)
(*                                                                         *)
(* Times.  A time in ms is an integer number of units, UnitsPerMs units    *)
(* to the millisecond; a Time object holds the same number.  The           *)
(* resolution is the number of units in one step.  Time stamps of reply    *)
(* points lie on the step grid and are written as their step count.        *)
(***************************************************************************)
EXTENDS Integers, Sequences, FiniteSets

(* ----------------------------- bounds ---------------------------------- *)

\* candidate intervals passed to set are 0..MaxV units
MaxV == 5
\* S_.data_ holds at most MaxStore rows
MaxStore == 2
\* a reply carries at most MaxBatch points
MaxBatch == 2
\* update is called with origin 0..MaxOrigin steps and from 0..MaxFrom
MaxOrigin == 1
MaxFrom == 1

(* ------------------------ the Time class ------------------------------- *)

\* units in one millisecond
UnitsPerMs == 2

\* resolutions the kernel may run with, in units per step (1.0 ms, 1.5 ms)
Resolutions == {UnitsPerMs, UnitsPerMs + 1}

\* Time::ms( v ): the Time of v ms
TimeMs(v) == v

\* Time::get_ms()
GetMs(t) == t

\* Time::get_steps(): the nearest whole number of steps
GetSteps(t, res) == (2 * t + res) \div (2 * res)

\* Time::step( n ): the Time of n steps
TimeStep(n, res) == n * res

(* ----------------------------- inputs ---------------------------------- *)

\* record lists a caller passes (Names of recordables)
RecordLists == { <<>>, <<"a">>, <<"a", "b">> }

\* the dictionaries passed to set: any subset of the two keys
Dicts ==
  { [known |-> k,
     interval |-> IF "interval" \in k THEN v ELSE 0,
     record_from |-> IF "record_from" \in k THEN r ELSE <<>>] :
       k \in SUBSET {"interval", "record_from"}, v \in 0..MaxV, r \in RecordLists }

\* activation windows <<t_min, t_max>> the recording device may hold, in steps
Windows == { <<0, 1>>, <<1, 2>> }

\* finite time stamps of reply points: the upper bounds of the windows.  For
\* <<0, 1>> stamp 1 is t_max and stamp 2 lies above it; for <<1, 2>> stamp 1
\* is t_min and stamp 2 is t_max.
Stamps == { w[2] : w \in Windows }

\* the step count that stands for a non-finite Time: above every stamp
PosInfSteps == 1 + CHOOSE m \in Stamps : \A s \in Stamps : s <= m

\* Time::is_finite()
IsFinite(stamp) == stamp < PosInfSteps

\* value vectors of reply points
DataVecs == { <<1>>, <<1, 2>> }

\* one point of a reply: DataLoggingReply::Item
Points == [timestamp : Stamps \cup {PosInfSteps}, data : DataVecs]

\* DataLoggingReply::Container, at most n points
RECURSIVE SeqsUpTo(_, _)
SeqsUpTo(S, n) ==
  IF n = 0 THEN { <<>> }
  ELSE LET shorter == SeqsUpTo(S, n - 1)
       IN  shorter \cup { Append(s, x) : s \in { t \in shorter : Len(t) = n - 1 }, x \in S }

(* ------------------------------ state ---------------------------------- *)

VARIABLES
  resolution,                   \* Time::get_resolution(), units per step
  interval_,                    \* P_.interval_, a Time
  record_from_,                 \* P_.record_from_
  has_targets_,                 \* B_.has_targets_
  new_request_,                 \* V_.new_request_
  current_request_data_start_,  \* V_.current_request_data_start_
  data_,                        \* S_.data_
  t_min_, t_max_,               \* device_.get_t_min_(), device_.get_t_max_()
  targets,                      \* record lists held by the connected targets
  op,                           \* the member function called last
  arg,                          \* its input
  err,                          \* "ok", or the error it threw
  sent,                         \* requests handed to network()->send / the target
  written,                      \* <<stamp, data>> handed to device_.write
  out                           \* what get / add_data_ put into the dictionary

P_vars == <<interval_, record_from_>>
V_vars == <<new_request_, current_request_data_start_>>
device_vars == <<t_min_, t_max_>>
vars == <<resolution, interval_, record_from_, has_targets_, new_request_,
          current_request_data_start_, data_, t_min_, t_max_, targets,
          op, arg, err, sent, written, out>>

NoArg == <<>>

\* what a call that sends, writes and exports nothing leaves behind
Quiet == sent' = <<>> /\ written' = <<>> /\ out' = <<>>

(* --------------------------- construction ------------------------------ *)

\* Parameters_::Parameters_(): interval_( Time::ms( 1.0 ) )
DefaultInterval == TimeMs(1 * UnitsPerMs)

Init ==
  /\ resolution \in Resolutions
  /\ interval_ = DefaultInterval
  /\ record_from_ = <<>>
  /\ has_targets_ = FALSE
  /\ new_request_ = FALSE
  /\ current_request_data_start_ = 0
  /\ data_ = <<>>
  /\ \E w \in Windows : t_min_ = w[1] /\ t_max_ = w[2]
  /\ targets = {}
  /\ op = "Multimeter"
  /\ arg = NoArg
  /\ err = "ok"
  /\ sent = <<>>
  /\ written = <<>>
  /\ out = <<>>

(* ------------------------ Parameters_::set ----------------------------- *)

\* the lock test with the record_from key forgotten
LockedIntervalOnly(d, b_has_targets) ==
  b_has_targets /\ "interval" \in d.known

\* the lock test with && between the two keys
LockedBothKeys(d, b_has_targets) ==
  b_has_targets /\ "interval" \in d.known /\ "record_from" \in d.known

\* line 90: the lock test
Locked(d, b_has_targets) ==
  b_has_targets /\ ("interval" \in d.known \/ "record_from" \in d.known)

\* the resolution test against zero instead of the resolution
TooCoarseNonPositive(v, res) == TimeMs(v) <= 0

\* line 99: Time( Time::ms( v ) ) < Time::get_resolution()
TooCoarse(v, res) == TimeMs(v) < res

\* the step count stored as if it were a Time, Time::step left out
RoundedIntervalNoStep(v, res) == GetSteps(TimeMs(v), res)

\* line 105: interval_ = Time::step( Time( Time::ms( v ) ).get_steps() )
RoundedInterval(v, res) == TimeStep(GetSteps(TimeMs(v), res), res)

\* the deviation test with a tolerance of one half instead of 10 epsilon
NotMultipleLoose(iv, v) ==
  IF v = 0 THEN GetMs(iv) # 0
  ELSE 2 * (IF GetMs(iv) < v THEN v - GetMs(iv) ELSE GetMs(iv) - v) > v

\* line 106: std::abs( 1 - interval_.get_ms() / v ) > 10 * epsilon.
\* On the unit grid two different values differ by at least 1 / MaxV
\* relative, far above 10 epsilon; equal values deviate by 0.  For v = 0 the
\* quotient is NaN (0/0), for which > is false, or infinite.
NotMultiple(iv, v) ==
  IF v = 0 THEN GetMs(iv) # 0 ELSE GetMs(iv) # v

\* lines 113-120: record_from_ after the record_from block
ExtractRecordFrom(d, rf) ==
  IF "record_from" \in d.known THEN d.record_from ELSE rf

\* Parameters_::set as a whole: the error thrown and the members afterwards
ParametersSet(d, p_interval, p_record_from, b_has_targets, res) ==
  IF Locked(d, b_has_targets)
  THEN [err |-> "locked", interval_ |-> p_interval, record_from_ |-> p_record_from]
  ELSE IF "interval" \in d.known
  THEN IF TooCoarse(d.interval, res)
       THEN [err |-> "too_coarse", interval_ |-> p_interval,
             record_from_ |-> p_record_from]
       ELSE LET iv == RoundedInterval(d.interval, res)
            IN  IF NotMultiple(iv, d.interval)
                THEN [err |-> "non_multiple", interval_ |-> iv,
                      record_from_ |-> p_record_from]
                ELSE [err |-> "ok", interval_ |-> iv,
                      record_from_ |-> ExtractRecordFrom(d, p_record_from)]
  ELSE [err |-> "ok", interval_ |-> p_interval,
        record_from_ |-> ExtractRecordFrom(d, p_record_from)]

Set(d) ==
  LET r == ParametersSet(d, interval_, record_from_, has_targets_, resolution)
  IN  /\ interval_' = r.interval_
      /\ record_from_' = r.record_from_
      /\ err' = r.err
      /\ op' = "set"
      /\ arg' = d
      /\ Quiet
      /\ UNCHANGED <<resolution, targets, has_targets_, V_vars, data_, device_vars>>

(* ------------------------ Parameters_::get ----------------------------- *)

\* lines 80-84: the dictionary get fills
ParametersGet(p_interval, p_record_from) ==
  [interval |-> GetMs(p_interval), record_from |-> p_record_from]

Get ==
  /\ out' = ParametersGet(interval_, record_from_)
  /\ op' = "get"
  /\ arg' = NoArg
  /\ err' = "ok"
  /\ sent' = <<>>
  /\ written' = <<>>
  /\ UNCHANGED <<resolution, targets, P_vars, has_targets_, V_vars, data_, device_vars>>

(* ------------------------- send_test_event ----------------------------- *)

\* the request built from the default interval instead of P_.interval_
DataLoggingRequestStale(p_interval, p_record_from) ==
  [params |-> TRUE, interval |-> DefaultInterval, record_from |-> p_record_from]

\* line 51: DataLoggingRequest e( P_.interval_, P_.record_from_ )
DataLoggingRequest(p_interval, p_record_from) ==
  [params |-> TRUE, interval |-> p_interval, record_from |-> p_record_from]

\* line 174: DataLoggingRequest req, built without arguments
DataLoggingRequestDefault ==
  [params |-> FALSE, interval |-> 0, record_from |-> <<>>]

\* the flag assigned the outcome of this test event alone
TestEventLockAssigned(b_has_targets, port_valid, prototype) ==
  port_valid /\ ~prototype

\* the test event that never sets the flag
TestEventLockNever(b_has_targets, port_valid, prototype) == b_has_targets

\* lines 54-55: B_.has_targets_ after the test event; port_valid is
\* p != invalid_port_, prototype is is_model_prototype()
TestEventLock(b_has_targets, port_valid, prototype) ==
  IF port_valid /\ ~prototype THEN TRUE ELSE b_has_targets

\* the kernel's side of line 53: a target that returned a valid port to an
\* object in the network is connected, and holds the record list of e
Connected(tg, p_record_from, port_valid, prototype) ==
  IF port_valid /\ ~prototype THEN tg \cup {p_record_from} ELSE tg

SendTestEvent(port_valid, prototype) ==
  /\ has_targets_' = TestEventLock(has_targets_, port_valid, prototype)
  /\ targets' = Connected(targets, record_from_, port_valid, prototype)
  /\ sent' = << DataLoggingRequest(interval_, record_from_) >>
  /\ op' = "send_test_event"
  /\ arg' = [port_valid |-> port_valid, prototype |-> prototype]
  /\ err' = "ok"
  /\ written' = <<>>
  /\ out' = <<>>
  /\ UNCHANGED <<resolution, P_vars, V_vars, data_, device_vars>>

(* -------------------------- lifecycle hooks ---------------------------- *)

\* lines 123-129: device_.init_state, S_.data_.clear()
InitState ==
  /\ data_' = <<>>
  /\ op' = "init_state_"
  /\ arg' = NoArg
  /\ err' = "ok"
  /\ Quiet
  /\ UNCHANGED <<resolution, targets, P_vars, has_targets_, V_vars, device_vars>>

\* lines 131-135: device_.init_buffers()
InitBuffers ==
  /\ op' = "init_buffers_"
  /\ arg' = NoArg
  /\ err' = "ok"
  /\ Quiet
  /\ UNCHANGED <<resolution, targets, P_vars, has_targets_, V_vars, data_, device_vars>>

\* calibrate with the assignment to new_request_ left out
CalibratedKeepsRequest(v_new_request, v_start) ==
  [new_request_ |-> v_new_request, current_request_data_start_ |-> 0]

\* lines 141-142: the members of V_ after calibrate
Calibrated(v_new_request, v_start) ==
  [new_request_ |-> FALSE, current_request_data_start_ |-> 0]

\* lines 137-143: device_.calibrate(), then the two members of V_; arg keeps
\* the members of V_ the call found
Calibrate ==
  /\ new_request_' = Calibrated(new_request_, current_request_data_start_).new_request_
  /\ current_request_data_start_' =
       Calibrated(new_request_, current_request_data_start_).current_request_data_start_
  /\ op' = "calibrate"
  /\ arg' = [new_request_ |-> new_request_,
             current_request_data_start_ |-> current_request_data_start_]
  /\ err' = "ok"
  /\ Quiet
  /\ UNCHANGED <<resolution, targets, P_vars, has_targets_, data_, device_vars>>

\* lines 145-149: device_.finalize()
Finalize ==
  /\ op' = "finalize"
  /\ arg' = NoArg
  /\ err' = "ok"
  /\ Quiet
  /\ UNCHANGED <<resolution, targets, P_vars, has_targets_, V_vars, data_, device_vars>>

(* ------------------------------ update --------------------------------- *)

\* the early return taken only when both conditions hold
UpdateReturnsEarlyBoth(origin_steps, from) == origin_steps = 0 /\ from # 0

\* line 158: the early return
UpdateReturnsEarly(origin_steps, from) == origin_steps = 0 \/ from # 0

\* line 173: V_.new_request_
NewRequest(b_has_targets, p_record_from) ==
  b_has_targets /\ p_record_from # <<>>

\* the request sent only when data is expected
UpdateRequestsIfExpecting(b_has_targets, p_record_from) ==
  IF b_has_targets /\ p_record_from # <<>>
  THEN << DataLoggingRequestDefault >> ELSE <<>>

\* lines 174-175: the requests passed to network()->send
UpdateRequests(b_has_targets, p_record_from) == << DataLoggingRequestDefault >>

Update(origin_steps, from) ==
  /\ op' = "update"
  /\ arg' = [origin_steps |-> origin_steps, from |-> from]
  /\ err' = "ok"
  /\ written' = <<>>
  /\ out' = <<>>
  /\ IF UpdateReturnsEarly(origin_steps, from)
     THEN /\ sent' = <<>>
          /\ UNCHANGED new_request_
     ELSE /\ new_request_' = NewRequest(has_targets_, record_from_)
          /\ sent' = UpdateRequests(has_targets_, record_from_)
  /\ UNCHANGED <<resolution, targets, P_vars, has_targets_, current_request_data_start_,
                 data_, device_vars>>

(* ------------------------------ handle --------------------------------- *)

\* the window closed at t_min
is_active_closed(stamp, t_min, t_max) == t_min <= stamp /\ stamp <= t_max

\* is_active that also asks whether update expects data
is_active_when_expected(stamp, t_min, t_max) ==
  new_request_ /\ t_min < stamp /\ stamp <= t_max

\* lines 225-231: is_active, on the step count of the stamp and the
\* device's window
is_active(stamp, t_min, t_max) == t_min < stamp /\ stamp <= t_max

\* the loop never ended by a stamp
BatchEndsNever(point) == FALSE

\* lines 189-190: the test that ends the loop
BatchEnds(point) == ~IsFinite(point.timestamp)

\* lines 187-205: the points of info, from position j on, that reach
\* device_.write and S_.data_.push_back, in order.  (The local counter
\* inactive_skipped is written and never read.)
RECURSIVE Recorded(_, _, _, _)
Recorded(info, j, t_min, t_max) ==
  IF j > Len(info) THEN <<>>
  ELSE IF BatchEnds(info[j]) THEN <<>>
  ELSE IF ~is_active(info[j].timestamp, t_min, t_max)
       THEN Recorded(info, j + 1, t_min, t_max)
       ELSE << info[j] >> \o Recorded(info, j + 1, t_min, t_max)

\* push_back replaced by an assignment of the new rows
PushBackAllAssigned(store, points) ==
  [k \in 1..Len(points) |-> points[k].data]

\* line 204 over the whole loop: S_.data_ after the call
PushBackAll(store, points) ==
  store \o [k \in 1..Len(points) |-> points[k].data]

\* only the first point of a reply written to the device
WriteAllFirst(points) ==
  [k \in 1..(IF Len(points) = 0 THEN 0 ELSE 1) |->
     <<points[k].timestamp, points[k].data>>]

\* lines 199-202 over the whole loop: the calls of device_.write
WriteAll(points) ==
  [k \in 1..Len(points) |-> <<points[k].timestamp, points[k].data>>]

Handle(info) ==
  /\ Len(data_) + Len(info) <= MaxStore
  /\ LET rec == Recorded(info, 1, t_min_, t_max_)
     IN  /\ data_' = PushBackAll(data_, rec)
         /\ written' = WriteAll(rec)
  /\ op' = "handle"
  /\ arg' = info
  /\ err' = "ok"
  /\ sent' = <<>>
  /\ out' = <<>>
  /\ UNCHANGED <<resolution, targets, P_vars, has_targets_, V_vars, device_vars>>

(* ----------------------------- add_data_ ------------------------------- *)

\* line 217: the assertion, for every v and t the loops visit
AddDataAsserts(p_record_from, store) ==
  \A v \in 1..Len(p_record_from) : \A t \in 1..Len(store) : v <= Len(store[t])

\* every vector filled from the first value of each row
AddDataColumnsFirst(p_record_from, store) ==
  [v \in 1..Len(p_record_from) |->
     [name |-> p_record_from[v],
      dv |-> [t \in 1..Len(store) |-> store[t][1]]]]

\* lines 212-222: one vector per recorded variable
AddDataColumns(p_record_from, store) ==
  [v \in 1..Len(p_record_from) |->
     [name |-> p_record_from[v],
      dv |-> [t \in 1..Len(store) |-> store[t][v]]]]

AddData ==
  /\ IF AddDataAsserts(record_from_, data_)
     THEN err' = "ok" /\ out' = AddDataColumns(record_from_, data_)
     ELSE err' = "assert" /\ out' = <<>>
  /\ op' = "add_data_"
  /\ arg' = NoArg
  /\ sent' = <<>>
  /\ written' = <<>>
  /\ UNCHANGED <<resolution, targets, P_vars, has_targets_, V_vars, data_, device_vars>>

(* ------------------------- copy construction --------------------------- *)

\* Time::calibrate(), called on the copied interval (line 69)
TimeCalibrate(t) == t

\* the members of the object n that the copy constructor reads
Members(p_interval, p_record_from, s_data, b_has_targets, v_new_request, v_start) ==
  [interval_ |-> p_interval, record_from_ |-> p_record_from, data_ |-> s_data,
   has_targets_ |-> b_has_targets, new_request_ |-> v_new_request,
   current_request_data_start_ |-> v_start]

\* the copy made member by member, as the implicit copy constructor would
CopyOfMemberwise(n) == n

\* lines 38-46 and 65-70: P_( n.P_ ), S_(), B_(), V_()
CopyOf(n) ==
  [interval_ |-> TimeCalibrate(n.interval_),
   record_from_ |-> n.record_from_,
   data_ |-> <<>>,
   has_targets_ |-> FALSE,
   new_request_ |-> FALSE,
   current_request_data_start_ |-> 0]

\* the object followed from here on is the copy; arg keeps the members of
\* the source n, and the copy has no connection yet
Clone ==
  LET n == Members(interval_, record_from_, data_, has_targets_, new_request_,
                   current_request_data_start_)
      c == CopyOf(n)
  IN  /\ interval_' = c.interval_
      /\ record_from_' = c.record_from_
      /\ data_' = c.data_
      /\ has_targets_' = c.has_targets_
      /\ new_request_' = c.new_request_
      /\ current_request_data_start_' = c.current_request_data_start_
      /\ targets' = {}
      /\ op' = "clone"
      /\ arg' = n
      /\ err' = "ok"
      /\ Quiet
      /\ UNCHANGED <<resolution, device_vars>>

(* ------------------------------- next ---------------------------------- *)

\* replies of at most MaxBatch points that fit into the room left in S_.data_
Batches(room) == SeqsUpTo(Points, IF room < MaxBatch THEN room ELSE MaxBatch)

\* every call but handle
Calls ==
  \/ \E d \in Dicts : Set(d)
  \/ Get
  \/ \E port_valid \in BOOLEAN, prototype \in BOOLEAN :
       SendTestEvent(port_valid, prototype)
  \/ InitState
  \/ InitBuffers
  \/ Calibrate
  \/ Finalize
  \/ \E origin_steps \in 0..MaxOrigin, from \in 0..MaxFrom :
       Update(origin_steps, from)
  \/ AddData
  \/ Clone

\* handle called with any reply
HandleAny == \E info \in Batches(MaxStore - Len(data_)) : Handle(info)

Next == Calls \/ HandleAny

\* the object under any sequence of calls, handle taking any reply
Spec == Init /\ [][Next]_vars

\* the row a target that holds the record list rf reports: one value per
\* entry of rf
RowFor(rf) == [v \in 1..Len(rf) |-> v]

\* the replies of such a target that fit into the room left in S_.data_
RepliesOf(rf, room) ==
  SeqsUpTo([timestamp : Stamps \cup {PosInfSteps}, data : {RowFor(rf)}],
           IF room < MaxBatch THEN room ELSE MaxBatch)

\* handle called by the kernel: with the reply of a connected target
HandleReply ==
  \E rf \in targets : \E info \in RepliesOf(rf, MaxStore - Len(data_)) : Handle(info)

KernelNext == Calls \/ HandleReply

\* the object inside the kernel: replies come from connected targets only
KernelSpec == Init /\ [][KernelNext]_vars

(* ------------------------------ claims --------------------------------- *)

SetCalled == op = "set"
HandleCalled == op = "handle"
UpdateCalled == op = "update"

\* C1: while has_targets_ is true, every set whose dictionary knows interval
\* or record_from throws the locked error and leaves interval_ and
\* record_from_ as they were, so that get returns the same dictionary as
\* before the call.
C1_LockedSetFails ==
  [][ (SetCalled' /\ has_targets_ /\ arg'.known # {})
        => /\ err' = "locked"
           /\ interval_' = interval_
           /\ record_from_' = record_from_
           /\ ParametersGet(interval_', record_from_')
                = ParametersGet(interval_, record_from_) ]_vars

\* a locked set that asked for another record list
C1_Witness ==
  /\ SetCalled /\ has_targets_ /\ err = "locked"
  /\ arg.known = {"record_from"}
  /\ arg.record_from # record_from_

\* C2: has_targets_ is false after construction, is true after a test event
\* that got a valid port on an object that is no prototype, and no member
\* function takes it from true to false.  (A copy is another object: its
\* flag starts false.)
C2_LockMonotone ==
  /\ ~has_targets_
  /\ [][ op' # "clone"
           => /\ has_targets_ => has_targets_'
              /\ (op' = "send_test_event" /\ arg'.port_valid /\ ~arg'.prototype)
                   => has_targets_' ]_vars

\* a test event that got no port, on an object already locked
C2_Witness ==
  /\ op = "send_test_event" /\ ~arg.port_valid
  /\ has_targets_

\* C3: a set that throws leaves interval_ and record_from_ of the
\* Parameters_ object unchanged.
C3_FailedSetChangesNothing ==
  [][ (SetCalled' /\ err' # "ok")
        => interval_' = interval_ /\ record_from_' = record_from_ ]_vars

\* v is a whole number of steps of resolution r
IsMultiple(v, r) == v % r = 0

\* C4: without the lock, a set with an interval v >= r that is a whole
\* multiple of r succeeds, and get then returns v as interval.
C4_MultipleAccepted ==
  (SetCalled /\ ~has_targets_ /\ "interval" \in arg.known
     /\ arg.interval >= resolution /\ IsMultiple(arg.interval, resolution))
    => /\ err = "ok"
       /\ ParametersGet(interval_, record_from_).interval = arg.interval

\* an accepted interval of two steps
C4_Witness ==
  /\ SetCalled /\ ~has_targets_ /\ err = "ok" /\ "interval" \in arg.known
  /\ arg.interval = 2 * resolution
  /\ ParametersGet(interval_, record_from_).interval = arg.interval

\* C5: without the lock, a set with an interval v < r throws the
\* resolution error, also when v is no multiple of r.
C5_BelowResolution ==
  (SetCalled /\ ~has_targets_ /\ "interval" \in arg.known
     /\ arg.interval < resolution)
    => err = "too_coarse"

\* an interval below the resolution that is no multiple of it either
C5_Witness ==
  /\ SetCalled /\ ~has_targets_ /\ err = "too_coarse"
  /\ arg.interval > 0 /\ arg.interval < resolution
  /\ ~IsMultiple(arg.interval, resolution)

\* C6: without the lock, a set with an interval v >= r that is no whole
\* multiple of r throws the multiple error.
C6_NonMultipleRejected ==
  (SetCalled /\ ~has_targets_ /\ "interval" \in arg.known
     /\ arg.interval >= resolution /\ ~IsMultiple(arg.interval, resolution))
    => err = "non_multiple"

\* r = 1.0 ms and v = 1.5 ms
C6_Witness ==
  /\ SetCalled /\ ~has_targets_ /\ err = "non_multiple"
  /\ resolution = UnitsPerMs /\ 2 * arg.interval = 3 * resolution

\* position of the first non-finite stamp of info, Len(info) + 1 if none
FirstNonFinite(info) ==
  IF \E j \in 1..Len(info) : info[j].timestamp = PosInfSteps
  THEN CHOOSE j \in 1..Len(info) :
         /\ info[j].timestamp = PosInfSteps
         /\ \A i \in 1..(j - 1) : info[i].timestamp # PosInfSteps
  ELSE Len(info) + 1

\* the positions of info whose points the claim says are stored
Stored(info, t_min, t_max) ==
  { j \in 1..Len(info) :
      /\ \A i \in 1..j : info[i].timestamp # PosInfSteps
      /\ t_min < info[j].timestamp
      /\ info[j].timestamp <= t_max }

\* the value vectors of info at the positions K, in the order of info
DataAt(info, K) ==
  LET F[j \in 0..Len(info)] ==
        IF j = 0 THEN <<>>
        ELSE IF j \in K THEN Append(F[j - 1], info[j].data) ELSE F[j - 1]
  IN  F[Len(info)]

\* C7: handle appends to S_.data_ exactly the points whose stamp is finite,
\* comes after no non-finite stamp, and satisfies t_min < stamp <= t_max.
C7_WindowFilter ==
  [][ HandleCalled'
        => data_' = data_ \o DataAt(arg', Stored(arg', t_min_, t_max_)) ]_vars

\* a point on t_min is dropped, the next one on t_max is stored
C7_Witness ==
  /\ HandleCalled /\ Len(arg) = 2
  /\ arg[1].timestamp = t_min_ /\ arg[2].timestamp = t_max_
  /\ arg[1].data # arg[2].data
  /\ written = << <<t_max_, arg[2].data>> >>
  /\ data_ # <<>> /\ data_[Len(data_)] = arg[2].data

\* C8: handle writes and stores no point at or after the first non-finite
\* stamp, and every point before it that lies in the window, whatever
\* points outside the window come before.
C8_StopsAtSentinel ==
  [][ HandleCalled'
        => LET cut == FirstNonFinite(arg')
               hits == { j \in 1..(cut - 1) :
                           t_min_ < arg'[j].timestamp /\ arg'[j].timestamp <= t_max_ }
           IN  /\ Len(written') = Cardinality(hits)
               /\ Len(data_') = Len(data_) + Cardinality(hits)
               /\ \A k \in 1..Len(written') :
                    \E j \in hits : written'[k] = <<arg'[j].timestamp, arg'[j].data>> ]_vars

\* a point in the window behind the sentinel is not written
C8_Witness ==
  /\ HandleCalled /\ Len(arg) = 2
  /\ arg[1].timestamp = PosInfSteps /\ arg[2].timestamp = t_max_
  /\ written = <<>>

\* C9: update with origin at step 0, or with from # 0, sends nothing and
\* leaves new_request_, S_.data_, the parameters and has_targets_ as they
\* were.
C9_UpdateNoOp ==
  [][ (UpdateCalled' /\ (arg'.origin_steps = 0 \/ arg'.from # 0))
        => /\ sent' = <<>>
           /\ UNCHANGED <<new_request_, data_, interval_, record_from_, has_targets_>> ]_vars

\* a mid-slice update that leaves a true new_request_ true
C9_Witness ==
  /\ UpdateCalled /\ arg.origin_steps # 0 /\ arg.from # 0
  /\ sent = <<>> /\ new_request_

IsPrefix(s, t) ==
  /\ Len(s) <= Len(t)
  /\ \A k \in 1..Len(s) : s[k] = t[k]

\* C12: every call on the object but init_state_ leaves the rows of S_.data_
\* in place, as a prefix of S_.data_ after the call; init_state_ leaves
\* S_.data_ empty.  (The copy made by the copy constructor is another
\* object, with its own S_.)
C12_StoreOnlyGrows ==
  [][ /\ op' \notin {"init_state_", "clone"} => IsPrefix(data_, data_')
      /\ op' = "init_state_" => data_' = <<>> ]_vars

\* a handle that added a row behind one already stored
C12_Witness ==
  /\ HandleCalled /\ Len(written) = 1 /\ Len(data_) = 2
  /\ data_[1] # data_[2]

C14_AnyReplyBreaksExport ==
  /\ op = "add_data_" /\ err = "assert"
  /\ \E t \in 1..Len(data_) : Len(data_[t]) < Len(record_from_)

C15_AnyReplyBreaksLength ==
  /\ HandleCalled /\ Len(written) >= 1
  /\ Len(data_[Len(data_)]) # Len(record_from_)

\* the points of info at the positions K, as <<stamp, values>>, in the
\* order of info
PointsAt(info, K) ==
  LET F[j \in 0..Len(info)] ==
        IF j = 0 THEN <<>>
        ELSE IF j \in K
             THEN Append(F[j - 1], <<info[j].timestamp, info[j].data>>)
             ELSE F[j - 1]
  IN  F[Len(info)]

\* C16: in every handle call the points written to the device are the
\* accepted points of the reply, each once and in the order of the reply,
\* and the rows appended to S_.data_ are the value vectors of the points
\* written, in the same order; equal points are all kept.
C16_WrittenEqualsStored ==
  [][ HandleCalled'
        => /\ written' = PointsAt(arg', Stored(arg', t_min_, t_max_))
           /\ Len(data_') = Len(data_) + Len(written')
           /\ \A k \in 1..Len(written') :
                data_'[Len(data_) + k] = written'[k][2] ]_vars

\* two equal points of one reply, both written and both stored
C16_Witness ==
  /\ HandleCalled /\ Len(arg) = 2 /\ arg[1] = arg[2]
  /\ Len(written) = 2 /\ written[1] = written[2]
  /\ Len(data_) = 2 /\ data_[1] = data_[2]

\* C17: in every state the interval is a whole number of steps of the
\* resolution, and at least one step.
C17_IntervalWholeSteps ==
  /\ interval_ % resolution = 0
  /\ interval_ >= resolution

\* what holds instead: an interval that set assigned is a whole number of
\* steps, at least one; the interval of the constructor is 1.0 ms
C17_AssignedIntervalWholeSteps ==
  \/ interval_ = DefaultInterval
  \/ interval_ % resolution = 0 /\ interval_ >= resolution

\* C18: the copy has the interval and the record list of the source, an
\* empty S_.data_, has_targets_ false, new_request_ false and
\* current_request_data_start_ 0, whatever the source holds.
C18_CloneResets ==
  [][ op' = "clone"
        => /\ interval_' = interval_
           /\ record_from_' = record_from_
           /\ data_' = <<>>
           /\ ~has_targets_'
           /\ ~new_request_'
           /\ current_request_data_start_' = 0 ]_vars

\* the copy of a source that is locked, holds rows and expects data
C18_Witness ==
  /\ op = "clone"
  /\ arg.has_targets_ /\ arg.data_ # <<>> /\ arg.new_request_
  /\ arg.interval_ # DefaultInterval
  /\ interval_ = arg.interval_ /\ record_from_ = arg.record_from_
  /\ data_ = <<>> /\ ~has_targets_ /\ ~new_request_

\* C19: calibrate leaves new_request_ false and
\* current_request_data_start_ 0, whatever they were, and leaves S_.data_,
\* the parameters and has_targets_ as they are.
C19_CalibrateResets ==
  [][ op' = "calibrate"
        => /\ ~new_request_'
           /\ current_request_data_start_' = 0
           /\ UNCHANGED <<data_, interval_, record_from_, has_targets_>> ]_vars

\* calibrate called while new_request_ was true, on a locked object that
\* holds rows
C19_Witness ==
  /\ op = "calibrate" /\ arg.new_request_ /\ ~new_request_
  /\ has_targets_ /\ data_ # <<>> /\ record_from_ # <<>>

====
